---------------------------- MODULE Spec2Model ----------------------------
(***************************************************************************)
(* The werewolf game session of src/server.js as a state machine.          *)
(*                                                                         *)
(* gameState is the module-level object of server.js (lines 23-37) with    *)
(* its fields; players is the Map ws -> player in insertion order, written *)
(* as the sequence of its values.  Every handler is an operator from a     *)
(* "world" record (the gameState object, the live setInterval timers, the  *)
(* pending setTimeout callbacks and the messages broadcast by the handler  *)
(* that is running) to the world it leaves, so that a handler calling      *)
(* another handler is operator composition, as in the code.                *)
(***************************************************************************)
EXTENDS Integers, Sequences, FiniteSets, TLC

----------------------------------------------------------------------------
(* Bounds of the model *)

\* identities that ever take a seat (fresh identity per /join)
NumUsers == 6
\* cap of gameState.dayCount (vote resolution is not taken beyond it)
MaxDay == 2
\* cap of the setTimeout(processNightPhase) callbacks pending at one time
MaxPending == 1
\* identities whose connection may close in the game with active players
MaxClosed == 1
\* the players a command may name: the first MaxTargets of the player list
MaxTargets == 3

\* identities that ever take a seat where only seats are studied
LobbyUsers == 9

(* Program constants *)

\* server.js:368  players.size >= 8 rejects a join
MaxSeats == 8
\* server.js:449 / 462  fewer than 5 players cannot start
MinPlayers == 5

NoUser == 0
Users == 1 .. NumUsers

WEREWOLF == "werewolf"
SEER == "seer"
WITCH == "witch"
HUNTER == "hunter"
VILLAGER == "villager"
NoRole == "none"

VARIABLES
    gameState,   \* the gameState object of server.js
    intervals,   \* number of setInterval timers created and not cleared
    timeouts,    \* pending setTimeout(processNightPhase, 2000) callbacks:
                 \*   fresh = scheduled in the phase instance that is current,
                 \*   stale = scheduled before the latest phase entry
    sent,        \* what the last handler sent: its broadcasts to every
                 \*   client, or its error reply to the sender
    closed,      \* the highest identity whose connection has closed
    history      \* of the current game: the players eliminated by vote and
                 \*   the number of shoots accepted

vars == <<gameState, intervals, timeouts, sent, closed, history>>

----------------------------------------------------------------------------
(* The world a handler runs in *)

World ==
    [g |-> gameState, intervals |-> intervals, timeouts |-> timeouts, sent |-> <<>>]

NoHistory == [votedOut |-> {}, shots |-> 0]

\* the history after a handler that broadcast out; a game that starts has none
Recorded(h, out) ==
    [votedOut |-> h.votedOut \cup
        {out[i].who : i \in {k \in DOMAIN out :
            out[k].type = "gameEvent" /\ out[k].content = "eliminated"}},
     shots |-> h.shots + Cardinality({k \in DOMAIN out :
            out[k].type = "system" /\ out[k].content = "shot"})]

Commit(w) ==
    /\ gameState' = w.g
    /\ intervals' = w.intervals
    /\ timeouts' = w.timeouts
    /\ sent' = w.sent
    /\ history' = Recorded(IF ~gameState.isPlaying /\ w.g.isPlaying
                           THEN NoHistory ELSE history, w.sent)

Send(w, msg) == [w EXCEPT !.sent = Append(@, msg)]

----------------------------------------------------------------------------
(* Lookups in the players Map *)

PlayerIds(g) == {g.players[i].userId : i \in DOMAIN g.players}

Seated(g, id) == id \in PlayerIds(g)

\* Array.from(players.values()).find(p => p.userId === id)
PlayerOf(g, id) ==
    g.players[CHOOSE i \in DOMAIN g.players : g.players[i].userId = id]

AlivePlayers(g) == SelectSeq(g.players, LAMBDA p : p.isAlive)

AliveIds(g) == {g.players[i].userId : i \in {k \in DOMAIN g.players : g.players[k].isAlive}}

\* a living seated player
Alive(g, id) == id \in AliveIds(g)

RoleOf(g, id) == IF Seated(g, id) THEN PlayerOf(g, id).role ELSE NoRole

\* player.isAlive = false for the player with this id
markDead(g, id) ==
    [g EXCEPT !.players =
        [i \in DOMAIN g.players |->
            IF g.players[i].userId = id
            THEN [g.players[i] EXCEPT !.isAlive = FALSE]
            ELSE g.players[i]]]

----------------------------------------------------------------------------
(* broadcastGameState, server.js:166-186 *)

GameStateMessage(g) ==
    [type |-> "gameState",
     isPlaying |-> g.isPlaying,
     gamePhase |-> g.gamePhase,
     dayCount |-> g.dayCount,
     hostId |-> g.hostId,
     players |-> [i \in DOMAIN g.players |->
                    [userId |-> g.players[i].userId,
                     isAlive |-> g.players[i].isAlive,
                     hasVoted |-> g.players[i].hasVoted,
                     hasActed |-> g.players[i].hasActed,
                     role |-> g.players[i].role]]]

broadcastGameState(w) == Send(w, GameStateMessage(w.g))

----------------------------------------------------------------------------
(* startPhaseTimer, server.js:1550-1557: clear the handle's interval, then *)
(* create a new one.  Entering a phase makes every pending night callback  *)
(* one of an earlier phase instance.                                       *)

clearPhaseTimer(w) ==
    IF w.g.phaseTimer
    THEN [w EXCEPT !.intervals = @ - 1, !.g.phaseTimer = FALSE]
    ELSE w

AgeTimeouts(w) ==
    [w EXCEPT !.timeouts = [fresh |-> 0, stale |-> @.stale + @.fresh]]

startPhaseTimer(w) ==
    LET c == clearPhaseTimer(w)
    IN AgeTimeouts([c EXCEPT !.intervals = @ + 1, !.g.phaseTimer = TRUE])

----------------------------------------------------------------------------
(* checkGameEnd and endGame, server.js:1463-1547 *)

AliveWolves(g) ==
    Len(SelectSeq(AlivePlayers(g), LAMBDA p : p.role = WEREWOLF))

\* the winner endGame is called with, or "continue"
Winner(g) ==
    IF Len(g.players) = 0 THEN "continue"
    ELSE IF Len(AlivePlayers(g)) = 0 THEN "noSurvivors"
    ELSE IF AliveWolves(g) = 0 THEN "villagers"
    ELSE IF AliveWolves(g) >= Len(AlivePlayers(g)) - AliveWolves(g) THEN "werewolves"
    ELSE "continue"

\* an endGame that leaves the phase timer running
endGameTimerLeft(w, winner) ==
    Send(AgeTimeouts([w EXCEPT !.g.isPlaying = FALSE, !.g.gamePhase = "ended"]),
         [type |-> "gameEnd", winner |-> winner,
          players |-> [i \in DOMAIN w.g.players |->
                         [userId |-> w.g.players[i].userId,
                          role |-> w.g.players[i].role,
                          isAlive |-> w.g.players[i].isAlive]]])

\* endGame, lines 1497-1547.  The broadcastGameState it defers by one second
\* (lines 1535-1541) changes no state and is left out.
endGame(w, winner) ==
    LET e == clearPhaseTimer([w EXCEPT !.g.isPlaying = FALSE, !.g.gamePhase = "ended"])
    IN Send(AgeTimeouts(e),
            [type |-> "gameEnd", winner |-> winner,
             players |-> [i \in DOMAIN w.g.players |->
                            [userId |-> w.g.players[i].userId,
                             role |-> w.g.players[i].role,
                             isAlive |-> w.g.players[i].isAlive]]])

checkGameEnd(w) ==
    IF Winner(w.g) = "continue" THEN w ELSE endGame(w, Winner(w.g))

----------------------------------------------------------------------------
(* startGame, server.js:461-567 *)

\* roles.push(...) of lines 474-480 for playerCount seats
Deck(n) ==
    <<WEREWOLF, WEREWOLF, SEER, WITCH, HUNTER>> \o [k \in 1 .. (n - 5) |-> VILLAGER]

\* a swap that loses the card of position i
SwapOverwrite(s, i, j) == [s EXCEPT ![i] = s[j]]

\* [roles[i], roles[j]] = [roles[j], roles[i]], line 485
Swap(s, i, j) == [s EXCEPT ![i] = s[j], ![j] = s[i]]

\* The shuffle of lines 483-486.  draws[i - 1] is the value of j + 1 the code
\* draws for position i (1-based), i running from Len(roles) down to 2.
RECURSIVE ShuffleFrom(_, _, _)
ShuffleFrom(roles, draws, i) ==
    IF i < 2 THEN roles
    ELSE ShuffleFrom(Swap(roles, i, draws[i - 1]), draws, i - 1)

Shuffle(roles, draws) == ShuffleFrom(roles, draws, Len(roles))

\* every sequence of draws Math.floor(Math.random() * (i + 1)) can produce
RECURSIVE DrawSeqs(_)
DrawSeqs(n) ==
    IF n <= 1 THEN {<<>>}
    ELSE {Append(s, j) : s \in DrawSeqs(n - 1), j \in 1 .. n}

startGame(w, draws) ==
    IF Len(w.g.players) < MinPlayers \/ Len(w.g.players) > MaxSeats
    THEN Send(w, [type |-> "system", content |-> "needs5to8"])
    ELSE
      LET roles == Shuffle(Deck(Len(w.g.players)), draws)
          dealt == [w EXCEPT
                      !.g.players = [i \in DOMAIN w.g.players |->
                          [w.g.players[i] EXCEPT !.role = roles[i], !.isAlive = TRUE,
                                                 !.hasVoted = FALSE, !.hasActed = FALSE]],
                      !.g.isPlaying = TRUE,
                      !.g.gamePhase = "night",
                      !.g.dayCount = 1,
                      !.g.nightActions = <<>>,
                      !.g.votes = <<>>,
                      !.g.killedTonight = NoUser,
                      !.g.savedTonight = NoUser,
                      !.g.poisonedTonight = NoUser,
                      !.g.checkedTonight = NoUser]
      IN broadcastGameState(startPhaseTimer(dealt))

\* a start handler that takes the command from any user
handleStartGameResultAnyone(g, actor) ==
    IF g.isPlaying THEN "GameAlreadyRunning"
    ELSE IF Len(g.players) < MinPlayers THEN "InsufficientPlayers"
    ELSE "ok"

\* handleStartGame, server.js:432-458
handleStartGameResult(g, actor) ==
    IF g.isPlaying THEN "GameAlreadyRunning"
    ELSE IF actor # g.hostId THEN "NotHost"
    ELSE IF Len(g.players) < MinPlayers THEN "InsufficientPlayers"
    ELSE "ok"

----------------------------------------------------------------------------
(* handleJoinGame, handleLeaveGame and the close handler *)

\* a join that never finds the seats full
handleJoinGameResultNoCap(g, id) ==
    IF g.isPlaying THEN "GameAlreadyRunning"
    ELSE IF Seated(g, id) THEN "AlreadySeated"
    ELSE "ok"

\* server.js:351-374
handleJoinGameResult(g, id) ==
    IF g.isPlaying THEN "GameAlreadyRunning"
    ELSE IF Seated(g, id) THEN "AlreadySeated"
    ELSE IF Len(g.players) >= MaxSeats THEN "SeatsFull"
    ELSE "ok"

\* server.js:376-393
handleJoinGame(w, id) ==
    LET j == [w EXCEPT !.g.players = Append(@,
                  [userId |-> id, role |-> NoRole, isAlive |-> TRUE,
                   hasVoted |-> FALSE, hasActed |-> FALSE])]
        h == IF Len(j.g.players) = 1 THEN [j EXCEPT !.g.hostId = id] ELSE j
    IN broadcastGameState(h)

\* a departure that hands the host to the player who joined last
vacateSeatToLast(g, id) ==
    LET rest == SelectSeq(g.players, LAMBDA p : p.userId # id)
    IN [g EXCEPT !.players = rest,
                 !.hostId = IF g.hostId = id /\ Len(rest) > 0
                            THEN rest[Len(rest)].userId ELSE @]

\* players.delete(ws) and the host transfer, server.js:414-423 and 2179-2188
vacateSeat(g, id) ==
    LET rest == SelectSeq(g.players, LAMBDA p : p.userId # id)
    IN [g EXCEPT !.players = rest,
                 !.hostId = IF g.hostId = id /\ Len(rest) > 0 THEN rest[1].userId ELSE @]

\* server.js:397-412
handleLeaveGameResult(g, id) ==
    IF g.isPlaying THEN "GameAlreadyRunning"
    ELSE IF ~Seated(g, id) THEN "NotSeated"
    ELSE "ok"

handleLeaveGame(w, id) == broadcastGameState([w EXCEPT !.g = vacateSeat(@, id)])

\* ws.on('close'), server.js:2172-2191
onClose(w, id) ==
    IF Seated(w.g, id)
    THEN broadcastGameState([w EXCEPT !.g = vacateSeat(@, id)])
    ELSE w

----------------------------------------------------------------------------
(* Night submissions: handleKill, handleCheck, handleSave, handlePoison,   *)
(* handleSkip (server.js:570-872), each after the dispatcher's guard of    *)
(* handleGameCommand (server.js:228-236).                                  *)

\* the checks the five handlers share, in the order of the code
nightActorResult(g, actor, role) ==
    IF ~g.isPlaying THEN "GameNotStarted"
    ELSE IF ~Seated(g, actor) \/ ~PlayerOf(g, actor).isAlive THEN "ActorDead"
    ELSE IF PlayerOf(g, actor).role # role THEN "NotYourTurn"
    ELSE IF g.gamePhase # "night" THEN "InvalidPhase"
    ELSE IF PlayerOf(g, actor).hasActed THEN "AlreadyActed"
    ELSE "ok"

\* findPlayerByUsername and the isAlive check on the target
livingTargetResult(g, target) ==
    IF ~Seated(g, target) THEN "UnknownTarget"
    ELSE IF ~PlayerOf(g, target).isAlive THEN "DeadTarget"
    ELSE "ok"

\* a handleKill without the test of lines 629-635
handleKillResultAnyTarget(g, actor, target) ==
    IF nightActorResult(g, actor, WEREWOLF) # "ok" THEN nightActorResult(g, actor, WEREWOLF)
    ELSE livingTargetResult(g, target)

handleKillResult(g, actor, target) ==
    IF nightActorResult(g, actor, WEREWOLF) # "ok" THEN nightActorResult(g, actor, WEREWOLF)
    ELSE IF livingTargetResult(g, target) # "ok" THEN livingTargetResult(g, target)
    ELSE IF PlayerOf(g, target).role = WEREWOLF THEN "ForbiddenTarget"
    ELSE "ok"

handleCheckResult(g, actor, target) ==
    IF nightActorResult(g, actor, SEER) # "ok" THEN nightActorResult(g, actor, SEER)
    ELSE livingTargetResult(g, target)

\* a save handler that takes any seated player as the target
handleSaveResultAnyTarget(g, actor, target) ==
    IF nightActorResult(g, actor, WITCH) # "ok" THEN nightActorResult(g, actor, WITCH)
    ELSE IF ~Seated(g, target) THEN "UnknownTarget"
    ELSE "ok"

\* the checks of handleSave, server.js:704-772
handleSaveResult(g, actor, target) ==
    IF nightActorResult(g, actor, WITCH) # "ok" THEN nightActorResult(g, actor, WITCH)
    ELSE IF g.killedTonight = NoUser THEN "NoOneToSave"
    ELSE IF ~Seated(g, target) THEN "UnknownTarget"
    ELSE IF target # g.killedTonight THEN "NoOneToSave"
    ELSE "ok"

handlePoisonResult(g, actor, target) ==
    IF nightActorResult(g, actor, WITCH) # "ok" THEN nightActorResult(g, actor, WITCH)
    ELSE livingTargetResult(g, target)

handleSkipResult(g, actor) == nightActorResult(g, actor, WITCH)

\* Map.prototype.set on nightActions: a present key keeps its position
setNightAction(actions, id, action, targetId) ==
    IF \E i \in DOMAIN actions : actions[i].userId = id
    THEN [i \in DOMAIN actions |->
            IF actions[i].userId = id
            THEN [userId |-> id, action |-> action, targetId |-> targetId]
            ELSE actions[i]]
    ELSE Append(actions, [userId |-> id, action |-> action, targetId |-> targetId])

\* nightActions entries of seated werewolves, server.js:1129-1133
wolfActions(g) ==
    SelectSeq(g.nightActions, LAMBDA a : Seated(g, a.userId) /\ PlayerOf(g, a.userId).role = WEREWOLF)

HasAction(g, id) == \E i \in DOMAIN g.nightActions : g.nightActions[i].userId = id

\* the value of allActed, server.js:1117-1165
allActed(g) ==
    LET alive == AlivePlayers(g)
        wolves == SelectSeq(alive, LAMBDA p : p.role = WEREWOLF)
    IN /\ (Len(wolves) > 0 => Len(wolfActions(g)) >= Len(wolves))
       /\ \A i \in DOMAIN alive :
            alive[i].role \in {SEER, WITCH} => HasAction(g, alive[i].userId)

\* checkAllNightActions, server.js:1117-1177
checkAllNightActions(w) ==
    LET alive == AlivePlayers(w.g)
        wolves == SelectSeq(alive, LAMBDA p : p.role = WEREWOLF)
        wa == wolfActions(w.g)
        k == IF Len(wolves) > 0 /\ Len(wa) >= Len(wolves)
             THEN [w EXCEPT !.g.killedTonight = wa[Len(wa)].targetId]
             ELSE w
    IN IF allActed(w.g)
       THEN [k EXCEPT !.timeouts.fresh = @ + 1]
       ELSE k

\* handleNightAction, server.js:1049-1114
handleNightAction(w, userId, action, targetId) ==
    IF ~Seated(w.g, userId) THEN w
    ELSE
      LET role == PlayerOf(w.g, userId).role
          r == [w EXCEPT
                  !.g.nightActions = setNightAction(@, userId, action, targetId),
                  !.g.players = [i \in DOMAIN w.g.players |->
                      IF w.g.players[i].userId = userId
                      THEN [w.g.players[i] EXCEPT !.hasActed = TRUE]
                      ELSE w.g.players[i]]]
          e == IF role = WEREWOLF /\ action = "kill"
                 THEN [r EXCEPT !.g.killedTonight = targetId]
               ELSE IF role = SEER /\ action = "check" /\ targetId # NoUser
                 THEN [r EXCEPT !.g.checkedTonight = targetId]
               ELSE IF role = WITCH /\ action = "save" /\ targetId # NoUser
                 THEN [r EXCEPT !.g.savedTonight = targetId]
               ELSE IF role = WITCH /\ action = "poison" /\ targetId # NoUser
                 THEN [r EXCEPT !.g.poisonedTonight = targetId]
               ELSE r
      IN checkAllNightActions(e)

\* the seerResult message of server.js:1085-1090
seerResult(g, target) == [target |-> target, isWerewolf |-> PlayerOf(g, target).role = WEREWOLF]

----------------------------------------------------------------------------
(* processNightPhase, server.js:1180-1291 *)

\* a resolution that leaves the flags of the players as they are
resetFlagsKept(g, acted, voted) == g

resetFlags(g, acted, voted) ==
    [g EXCEPT !.players = [i \in DOMAIN g.players |->
        [g.players[i] EXCEPT !.hasActed = IF acted THEN FALSE ELSE @,
                             !.hasVoted = IF voted THEN FALSE ELSE @]]]

\* a resolution that leaves the night's actions and targets in place
nightStateKept(g) == g

\* lines 1251-1256
clearNightState(g) ==
    [g EXCEPT !.nightActions = <<>>,
              !.killedTonight = NoUser,
              !.savedTonight = NoUser,
              !.poisonedTonight = NoUser,
              !.checkedTonight = NoUser]

\* a resolution that ignores the antidote
saveIgnored(g) == FALSE

\* the condition of line 1195
saveCancelsKill(g) == g.savedTonight # NoUser /\ g.killedTonight = g.savedTonight

\* lines 1195-1224: the save, the poison and the kill take effect; the lines
\* of deathMessages are broadcast later, at lines 1227-1242
nightDeaths(w) ==
    LET \* lines 1195-1200
        w1 == IF saveCancelsKill(w.g)
              THEN Send([w EXCEPT !.g.killedTonight = NoUser], [type |-> "gameEvent", content |-> "saved"])
              ELSE w
        \* lines 1203-1212
        w2 == IF w1.g.poisonedTonight # NoUser /\ Seated(w1.g, w1.g.poisonedTonight)
              THEN Send([w1 EXCEPT !.g = markDead(@, w1.g.poisonedTonight)],
                        [type |-> "gameEvent", content |-> "poisoned", who |-> w1.g.poisonedTonight])
              ELSE w1
    \* lines 1215-1224
    IN IF w2.g.killedTonight # NoUser /\ Seated(w2.g, w2.g.killedTonight)
       THEN Send([w2 EXCEPT !.g = markDead(@, w2.g.killedTonight)],
                 [type |-> "gameEvent", content |-> "killed", who |-> w2.g.killedTonight])
       ELSE w2

\* lines 1251-1267: the night state and the flags are reset, day is entered
\* and its timer started
enterDay(w) ==
    startPhaseTimer([w EXCEPT !.g = resetFlags(
                        [clearNightState(@) EXCEPT !.gamePhase = "day"], TRUE, TRUE)])

processNightPhase(w) ==
    LET w3 == nightDeaths(w)
        \* lines 1227-1242
        w4 == IF Len(w3.sent) > Len(w.sent) THEN w3
              ELSE Send(w3, [type |-> "gameEvent", content |-> "peaceful"])
        \* lines 1245-1249
        w5 == checkGameEnd(w4)
    IN IF Winner(w4.g) # "continue" THEN w5
       ELSE
         LET t == Send(enterDay(w5),
                       [type |-> "phaseChange", phase |-> "day", dayCount |-> w5.g.dayCount])
         IN IF Len(t.g.players) > 0 THEN broadcastGameState(t) ELSE t

----------------------------------------------------------------------------
(* processVotePhase, server.js:1312-1442 *)

\* voteCount of lines 1322-1329: a Map target -> count in the order in which
\* the targets first appear in votes
RECURSIVE voteCountFrom(_, _, _)
voteCountFrom(votes, i, acc) ==
    IF i > Len(votes) THEN acc
    ELSE
      LET t == votes[i].targetId
          next == IF \E k \in DOMAIN acc : acc[k].targetId = t
                  THEN [k \in DOMAIN acc |->
                          IF acc[k].targetId = t
                          THEN [acc[k] EXCEPT !.count = @ + 1]
                          ELSE acc[k]]
                  ELSE Append(acc, [targetId |-> t, count |-> 1])
      IN voteCountFrom(votes, i + 1, next)

voteCount(votes) == voteCountFrom(votes, 1, <<>>)

\* a tally in which the later of two equal counts wins
tallyStepLastWins(acc, entry) ==
    IF entry.count >= acc.maxVotes
      THEN [maxVotes |-> entry.count, eliminatedId |-> entry.targetId, tie |-> FALSE]
    ELSE acc

\* the body of the loop of lines 1335-1343 for one entry of voteCount
tallyStep(acc, entry) ==
    IF entry.count > acc.maxVotes
      THEN [maxVotes |-> entry.count, eliminatedId |-> entry.targetId, tie |-> FALSE]
    ELSE IF entry.count = acc.maxVotes
      THEN [acc EXCEPT !.tie = TRUE, !.eliminatedId = NoUser]
    ELSE acc

\* voteCount.forEach of lines 1335-1343
RECURSIVE tallyFrom(_, _, _)
tallyFrom(vc, i, acc) ==
    IF i > Len(vc) THEN acc
    ELSE tallyFrom(vc, i + 1, tallyStep(acc, vc[i]))

tally(votes) ==
    tallyFrom(voteCount(votes), 1, [maxVotes |-> 0, eliminatedId |-> NoUser, tie |-> FALSE])

\* a resolution that does what the error recovery of lines 1443-1459 does:
\* night is entered again with a fresh timer and nothing else is changed
processVotePhaseRecover(w) ==
    Send(startPhaseTimer([w EXCEPT !.g.gamePhase = "night"]),
         [type |-> "gameEvent", content |-> "voteError"])

\* lines 1346-1371: the player with the most votes is eliminated
voteElimination(w) ==
    LET t == tally(w.g.votes)
    IN IF t.eliminatedId # NoUser /\ ~t.tie
       THEN IF Seated(w.g, t.eliminatedId)
            THEN Send([w EXCEPT !.g = markDead(@, t.eliminatedId)],
                      [type |-> "gameEvent", content |-> "eliminated",
                       who |-> t.eliminatedId, count |-> t.maxVotes])
            ELSE w
       ELSE Send(w, [type |-> "gameEvent", content |-> "tie"])

\* lines 1381-1409: the votes and the flags are reset, the next night is
\* entered and its timer started
enterNight(w) ==
    startPhaseTimer([w EXCEPT !.g = resetFlags(
                        [@ EXCEPT !.votes = <<>>,
                                  !.dayCount = @ + 1,
                                  !.gamePhase = "night"], FALSE, TRUE)])

\* server.js:1312-1442, with every broadcast delivered; a broadcast throws
\* only if client.send does, and processVotePhaseThrows is the resolution then
processVotePhase(w) ==
    IF Len(w.g.players) = 0 THEN w
    ELSE
      LET w1 == voteElimination(w)
          \* lines 1374-1378
          w2 == checkGameEnd(w1)
      IN IF Winner(w1.g) # "continue" THEN w2
         ELSE
           LET c == enterNight(w2)
           IN broadcastGameState(
                  Send(c, [type |-> "phaseChange", phase |-> "night", dayCount |-> c.g.dayCount]))

----------------------------------------------------------------------------
(* handleVote, server.js:927-989 *)

\* a vote handler that lets a player vote again
handleVoteResultAgain(g, actor, target) ==
    IF ~g.isPlaying THEN "GameNotStarted"
    ELSE IF ~Seated(g, actor) \/ ~PlayerOf(g, actor).isAlive THEN "ActorDead"
    ELSE IF g.gamePhase # "vote" THEN "InvalidPhase"
    ELSE livingTargetResult(g, target)

\* the checks of handleVote, lines 927-976
handleVoteResult(g, actor, target) ==
    IF ~g.isPlaying THEN "GameNotStarted"
    ELSE IF ~Seated(g, actor) \/ ~PlayerOf(g, actor).isAlive THEN "ActorDead"
    ELSE IF g.gamePhase # "vote" THEN "InvalidPhase"
    ELSE IF PlayerOf(g, actor).hasVoted THEN "AlreadyVoted"
    ELSE livingTargetResult(g, target)

\* Map.prototype.set on votes
setVote(votes, voterId, targetId) ==
    IF \E i \in DOMAIN votes : votes[i].voterId = voterId
    THEN [i \in DOMAIN votes |->
            IF votes[i].voterId = voterId
            THEN [voterId |-> voterId, targetId |-> targetId]
            ELSE votes[i]]
    ELSE Append(votes, [voterId |-> voterId, targetId |-> targetId])

\* a handler that leaves every resolution to the deadline
allVotedNever(g) == FALSE

\* lines 983-986
allVoted(g) == Len(g.votes) >= Len(AlivePlayers(g))

\* lines 978-979
recordVote(w, actor, target) ==
    [w EXCEPT
        !.g.votes = setVote(@, actor, target),
        !.g.players = [i \in DOMAIN w.g.players |->
            IF w.g.players[i].userId = actor
            THEN [w.g.players[i] EXCEPT !.hasVoted = TRUE]
            ELSE w.g.players[i]]]

handleVote(w, actor, target) ==
    LET v == recordVote(w, actor, target)
    IN IF allVoted(v.g) THEN processVotePhase(v) ELSE v

----------------------------------------------------------------------------
(* handleShoot, server.js:875-924 *)

handleShootResult(g, actor, target) ==
    IF ~g.isPlaying THEN "GameNotStarted"
    ELSE IF ~Seated(g, actor) \/ PlayerOf(g, actor).isAlive THEN "NotYourTurn"
    ELSE IF PlayerOf(g, actor).role # HUNTER THEN "NotYourTurn"
    ELSE livingTargetResult(g, target)

\* a shot that is not followed by the win evaluation
handleShootNoEnd(w, actor, target) ==
    broadcastGameState(
        Send([w EXCEPT !.g = markDead(@, target)],
             [type |-> "system", content |-> "shot", by |-> actor, who |-> target]))

handleShoot(w, actor, target) ==
    broadcastGameState(
        checkGameEnd(
            Send([w EXCEPT !.g = markDead(@, target)],
                 [type |-> "system", content |-> "shot", by |-> actor, who |-> target])))

----------------------------------------------------------------------------
(* The setInterval callback of startPhaseTimer at now >= phaseEndTime,     *)
(* server.js:1557-1635                                                     *)

\* a deadline that marks nobody
markIdleActedNobody(g) == g

\* lines 1580-1587
markIdleActed(g) ==
    [g EXCEPT !.players = [i \in DOMAIN g.players |->
        IF g.players[i].isAlive /\ ~g.players[i].hasActed
           /\ g.players[i].role \in {WEREWOLF, SEER, WITCH}
        THEN [g.players[i] EXCEPT !.hasActed = TRUE]
        ELSE g.players[i]]]

\* lines 1619-1626
markIdleVoted(g) ==
    [g EXCEPT !.players = [i \in DOMAIN g.players |->
        IF g.players[i].isAlive /\ ~g.players[i].hasVoted
        THEN [g.players[i] EXCEPT !.hasVoted = TRUE]
        ELSE g.players[i]]]

onDeadline(w) ==
    LET c == clearPhaseTimer(w)
    IN IF c.g.gamePhase = "night"
         THEN processNightPhase([c EXCEPT !.g = markIdleActed(@)])
       ELSE IF c.g.gamePhase = "day"
         THEN broadcastGameState(
                  Send(startPhaseTimer([c EXCEPT !.g.gamePhase = "vote"]),
                       [type |-> "phaseChange", phase |-> "vote", dayCount |-> c.g.dayCount]))
       ELSE IF c.g.gamePhase = "vote"
         THEN processVotePhase([c EXCEPT !.g = markIdleVoted(@)])
       ELSE c

----------------------------------------------------------------------------
(* The state after the module is loaded, server.js:23-37 *)

InitialGameState ==
    [isPlaying |-> FALSE,
     players |-> <<>>,
     hostId |-> NoUser,
     gamePhase |-> "waiting",
     dayCount |-> 1,
     votes |-> <<>>,
     nightActions |-> <<>>,
     killedTonight |-> NoUser,
     savedTonight |-> NoUser,
     poisonedTonight |-> NoUser,
     checkedTonight |-> NoUser,
     phaseTimer |-> FALSE]

Init ==
    /\ gameState = InitialGameState
    /\ intervals = 0
    /\ timeouts = [fresh |-> 0, stale |-> 0]
    /\ sent = <<>>
    /\ closed = 0
    /\ history = NoHistory

----------------------------------------------------------------------------
(* Commands and callbacks *)

Pending == timeouts.fresh + timeouts.stale

\* The draws the game specification explores: the run of Math.random() that
\* swaps the hunter's card (position 5 of the deck) to the first seat and
\* leaves every other card in place.
GameDraws(n) ==
    {d \in DrawSeqs(n) : \A i \in DOMAIN d : d[i] = IF i + 1 = 5 THEN 1 ELSE i + 1}

\* the players a command names
Targets(g) == {g.players[i].userId : i \in {k \in DOMAIN g.players : k <= MaxTargets}}

\* the seat whose connection closes, and the seat that types /leave
FirstSeat(g) == {g.players[i].userId : i \in {k \in DOMAIN g.players : k = 1}}
LastSeat(g) == {g.players[i].userId : i \in {k \in DOMAIN g.players : k = Len(g.players)}}

\* The identity that types /join: the connected user after the last seat (an
\* identity is not used again once its connection has closed).
Joiner(g) ==
    LET last == IF Len(g.players) = 0 THEN 0 ELSE g.players[Len(g.players)].userId
    IN (IF last > closed THEN last ELSE closed) + 1

\* "/join"
Join ==
    /\ Joiner(gameState) <= NumUsers
    /\ handleJoinGameResult(gameState, Joiner(gameState)) = "ok"
    /\ Commit(handleJoinGame(World, Joiner(gameState)))
    /\ UNCHANGED closed

\* "/leave"
LeaveGame ==
    \E id \in LastSeat(gameState) :
        /\ handleLeaveGameResult(gameState, id) = "ok"
        /\ Commit(handleLeaveGame(World, id))
        /\ UNCHANGED closed

\* the connection of a seated player closes
Disconnect ==
    \E id \in FirstSeat(gameState) :
        /\ Commit(onClose(World, id))
        /\ closed' = IF id > closed THEN id ELSE closed

\* "/start" with the shuffle drawing one of drawSet
StartWith(drawSet) ==
    \E id \in PlayerIds(gameState) :
        /\ handleStartGameResult(gameState, id) = "ok"
        /\ \E draws \in drawSet : Commit(startGame(World, draws))
        /\ UNCHANGED closed

StartGame == StartWith(GameDraws(Len(gameState.players)))

NightSubmit(actor, action, target) ==
    LET w == handleNightAction(World, actor, action, target)
    IN /\ w.timeouts.fresh + w.timeouts.stale <= MaxPending
       /\ Commit(w)
       /\ UNCHANGED closed

\* "/kill @target"
KillCmd ==
    \E actor \in PlayerIds(gameState), target \in Targets(gameState) :
        /\ handleKillResult(gameState, actor, target) = "ok"
        /\ NightSubmit(actor, "kill", target)

\* "/check @target"
CheckCmd ==
    \E actor \in PlayerIds(gameState), target \in Targets(gameState) :
        /\ handleCheckResult(gameState, actor, target) = "ok"
        /\ NightSubmit(actor, "check", target)

\* "/save @target"
SaveCmd ==
    \E actor \in PlayerIds(gameState), target \in Targets(gameState) :
        /\ handleSaveResult(gameState, actor, target) = "ok"
        /\ NightSubmit(actor, "save", target)

\* "/poison @target"
PoisonCmd ==
    \E actor \in PlayerIds(gameState), target \in Targets(gameState) :
        /\ handlePoisonResult(gameState, actor, target) = "ok"
        /\ NightSubmit(actor, "poison", target)

\* "/skip"
SkipCmd ==
    \E actor \in PlayerIds(gameState) :
        /\ handleSkipResult(gameState, actor) = "ok"
        /\ NightSubmit(actor, "skip", NoUser)

\* the next voter: living players type /vote in the order of the player list
NextVoter(g) ==
    {g.players[i].userId : i \in {k \in DOMAIN g.players :
        /\ g.players[k].isAlive /\ ~g.players[k].hasVoted
        /\ \A j \in 1 .. (k - 1) : ~g.players[j].isAlive \/ g.players[j].hasVoted}}

\* "/vote @target"
VoteCmd ==
    \E actor \in NextVoter(gameState), target \in Targets(gameState) :
        /\ handleVoteResult(gameState, actor, target) = "ok"
        /\ LET w == handleVote(World, actor, target)
           IN /\ w.g.dayCount <= MaxDay
              /\ Commit(w)
        /\ UNCHANGED closed

\* "/shoot @target"
ShootCmd ==
    \E actor \in PlayerIds(gameState), target \in Targets(gameState) :
        /\ handleShootResult(gameState, actor, target) = "ok"
        /\ Commit(handleShoot(World, actor, target))
        /\ UNCHANGED closed

\* The interval callback runs with now >= phaseEndTime.  Every phase lasts
\* at least 60 s (GAME_TIMES, server.js:79-83), so a 2 s callback scheduled
\* before the phase was entered has run by then.
Deadline ==
    /\ intervals > 0
    /\ timeouts.stale = 0
    /\ LET w == onDeadline(World)
       IN /\ w.g.dayCount <= MaxDay
          /\ Commit(w)
    /\ UNCHANGED closed

\* A setTimeout callback of checkAllNightActions runs (server.js:1169-1171);
\* callbacks run in the order in which they were scheduled.
NightTimeout ==
    /\ Pending > 0
    /\ LET rest == IF timeouts.stale > 0
                   THEN [timeouts EXCEPT !.stale = @ - 1]
                   ELSE [timeouts EXCEPT !.fresh = @ - 1]
       IN Commit(processNightPhase([World EXCEPT !.timeouts = rest]))
    /\ UNCHANGED closed

\* the commands of handleGameCommand that act on the game
Commands ==
    {"join", "leave", "start", "kill", "check", "save", "poison", "skip", "shoot", "vote"}

\* the outcome of the checks of the handler that handleGameCommand
\* (server.js:227-301) dispatches cmd to
commandResult(g, cmd, actor, target) ==
    CASE cmd = "join" -> handleJoinGameResult(g, actor)
      [] cmd = "leave" -> handleLeaveGameResult(g, actor)
      [] cmd = "start" -> handleStartGameResult(g, actor)
      [] cmd = "kill" -> handleKillResult(g, actor, target)
      [] cmd = "check" -> handleCheckResult(g, actor, target)
      [] cmd = "save" -> handleSaveResult(g, actor, target)
      [] cmd = "poison" -> handlePoisonResult(g, actor, target)
      [] cmd = "skip" -> handleSkipResult(g, actor)
      [] cmd = "shoot" -> handleShootResult(g, actor, target)
      [] cmd = "vote" -> handleVoteResult(g, actor, target)

\* the error replies that the commands of the connected users can draw, a
\* command naming one of the first MaxTargets players or nobody
Rejections(g) ==
    {commandResult(g, cmd, actor, target) :
        cmd \in Commands, actor \in Users, target \in Targets(g) \cup {NoUser}} \ {"ok"}

\* a handler that stops the phase timer before it rejects
rejectCommandCleared(w, why) ==
    Send(clearPhaseTimer(w), [type |-> "reply", content |-> why])

\* a handler whose check fails: ws.send of the error to the sender, return
rejectCommand(w, why) == Send(w, [type |-> "reply", content |-> why])

\* a command that its handler rejects
RejectedCmd ==
    \E why \in Rejections(gameState) :
        /\ Commit(rejectCommand(World, why))
        /\ UNCHANGED closed

JoinLobby == gameState.gamePhase = "waiting" /\ Join

LeaveLobby == gameState.gamePhase = "waiting" /\ LeaveGame

CloseOne == closed < MaxClosed /\ Disconnect

\* The game specification: seats are taken and given up before the first
\* game; one connection closes; commands name the first MaxTargets players.
Next ==
    \/ JoinLobby
    \/ LeaveLobby
    \/ CloseOne
    \/ StartGame
    \/ KillCmd
    \/ CheckCmd
    \/ SaveCmd
    \/ PoisonCmd
    \/ SkipCmd
    \/ VoteCmd
    \/ ShootCmd
    \/ Deadline
    \/ NightTimeout

Spec == Init /\ [][Next]_vars

----------------------------------------------------------------------------
(* The deal on its own: n players seated by n joins, then /start with every *)
(* sequence of draws the shuffle can make.                                  *)

InitialWorld ==
    [g |-> InitialGameState, intervals |-> 0,
     timeouts |-> [fresh |-> 0, stale |-> 0], sent |-> <<>>]

\* the world after users 1 .. n have typed /join in turn
RECURSIVE SeatedWorld(_)
SeatedWorld(n) ==
    IF n = 0 THEN InitialWorld
    ELSE handleJoinGame([SeatedWorld(n - 1) EXCEPT !.sent = <<>>], n)

InitDeal ==
    \E n \in MinPlayers .. MaxSeats :
        /\ gameState = SeatedWorld(n).g
        /\ intervals = SeatedWorld(n).intervals
        /\ timeouts = SeatedWorld(n).timeouts
        /\ sent = SeatedWorld(n).sent
        /\ closed = 0
        /\ history = NoHistory

Deal == StartWith(DrawSeqs(Len(gameState.players)))

SpecDeal == InitDeal /\ [][Deal]_vars

----------------------------------------------------------------------------
(* Idle players: seats are taken and given up, connections close, the host  *)
(* starts games, and nobody types a game command: only the phase timer      *)
(* moves the game.  The interval callback runs every second while its       *)
(* interval is alive, so a deadline that can pass does pass.                *)

NextIdle ==
    \/ Join
    \/ LeaveGame
    \/ Disconnect
    \/ StartGame
    \/ Deadline

SpecIdle == Init /\ [][NextIdle]_vars /\ WF_vars(Deadline)

----------------------------------------------------------------------------
(* Seats: up to LobbyUsers identities join in turn, any seated player       *)
(* leaves or loses the connection, the host starts games and the timer      *)
(* carries them on.                                                         *)

JoinSeat ==
    /\ Joiner(gameState) <= LobbyUsers
    /\ handleJoinGameResult(gameState, Joiner(gameState)) = "ok"
    /\ Commit(handleJoinGame(World, Joiner(gameState)))
    /\ UNCHANGED closed

LeaveSeat ==
    \E id \in PlayerIds(gameState) :
        /\ handleLeaveGameResult(gameState, id) = "ok"
        /\ Commit(handleLeaveGame(World, id))
        /\ UNCHANGED closed

CloseSeat ==
    \E id \in PlayerIds(gameState) :
        /\ Commit(onClose(World, id))
        /\ closed' = IF id > closed THEN id ELSE closed

NextSeats ==
    \/ JoinSeat
    \/ LeaveSeat
    \/ CloseSeat
    \/ StartGame
    \/ Deadline

SpecSeats == Init /\ [][NextSeats]_vars

\* The command specification: five players take their seats and play, and
\* at any moment a connected user may type a command that is rejected.
JoinFive == Len(gameState.players) < MinPlayers /\ JoinLobby

NextCmd ==
    \/ JoinFive
    \/ StartGame
    \/ KillCmd
    \/ CheckCmd
    \/ SaveCmd
    \/ PoisonCmd
    \/ SkipCmd
    \/ VoteCmd
    \/ ShootCmd
    \/ Deadline
    \/ NightTimeout
    \/ RejectedCmd

SpecCmd == Init /\ [][NextCmd]_vars

----------------------------------------------------------------------------
(* Nights with a closing connection: five players take their seats and play *)
(* their nights, nobody votes or shoots, and the connection of one seated   *)
(* player, whichever, closes at some moment.                                *)

CloseAny == closed < MaxClosed /\ CloseSeat

NextNight ==
    \/ JoinFive
    \/ StartGame
    \/ KillCmd
    \/ CheckCmd
    \/ SaveCmd
    \/ PoisonCmd
    \/ SkipCmd
    \/ CloseAny
    \/ Deadline
    \/ NightTimeout

SpecNight == Init /\ [][NextNight]_vars

----------------------------------------------------------------------------
(* Vacated seats: five players take their seats and play, werewolves kill,  *)
(* the witch poisons, players vote, and while a game is running the         *)
(* connection of any seated player may close, one after another.            *)

CloseInGame == gameState.isPlaying /\ CloseSeat

NextVacate ==
    \/ JoinFive
    \/ StartGame
    \/ KillCmd
    \/ PoisonCmd
    \/ VoteCmd
    \/ CloseInGame
    \/ Deadline
    \/ NightTimeout

SpecVacate == Init /\ [][NextVacate]_vars

----------------------------------------------------------------------------
(* Properties *)

RoleCount(g, role) ==
    Cardinality({i \in DOMAIN g.players : g.players[i].role = role})

\* C1: for every seated count N in 5..8 and every outcome of the shuffle,
\* startGame gives every seated player exactly one role and the roles dealt
\* are two werewolves, one seer, one witch, one hunter and N - 5 villagers.
C1_RoleMultiset ==
    gameState.isPlaying =>
        LET n == Len(gameState.players)
        IN /\ n \in MinPlayers .. MaxSeats
           /\ \A i \in DOMAIN gameState.players :
                  gameState.players[i].role \in {WEREWOLF, SEER, WITCH, HUNTER, VILLAGER}
           /\ RoleCount(gameState, WEREWOLF) = 2
           /\ RoleCount(gameState, SEER) = 1
           /\ RoleCount(gameState, WITCH) = 1
           /\ RoleCount(gameState, HUNTER) = 1
           /\ RoleCount(gameState, VILLAGER) = n - 5

\* a game of eight dealt by a shuffle that moved a villager to the first
\* seat and a werewolf to the last
C1_Witness ==
    /\ gameState.isPlaying
    /\ Len(gameState.players) = MaxSeats
    /\ gameState.players[1].role = VILLAGER
    /\ gameState.players[MaxSeats].role = WEREWOLF

\* the step runs a setTimeout callback scheduled in a night that has been left
StaleNightTimeout == timeouts.stale > 0 /\ NightTimeout

\* C2: when the completion path and the deadline path both fire for one
\* night, the later trigger changes no state, announces nothing and enters
\* no phase: a callback of a night that has been left is a no-op.
C2_LaterTriggerIsNoOp ==
    [][StaleNightTimeout => (gameState' = gameState /\ sent' = <<>>)]_vars

\* C3: a gameState broadcast sent while the phase is waiting, night, day or
\* vote carries no player's role.
C3_NoRoleBeforeEnd ==
    \A i \in DOMAIN sent :
        (sent[i].type = "gameState" /\ sent[i].gamePhase # "ended") =>
            \A k \in DOMAIN sent[i].players : sent[i].players[k].role = NoRole

\* C4: in a game whose hunter was eliminated by vote at most one shoot is
\* accepted: after the first, every shoot of the hunter is rejected.
C4_OneShot ==
    (\E id \in history.votedOut : RoleOf(gameState, id) = HUNTER) => history.shots <= 1

VotesFor(votes, target) ==
    Cardinality({i \in DOMAIN votes : votes[i].targetId = target})

\* the targets that hold the strictly highest count: one target or none
StrictTop(votes) ==
    {t \in {votes[i].targetId : i \in DOMAIN votes} :
        \A i \in DOMAIN votes :
            votes[i].targetId # t => VotesFor(votes, votes[i].targetId) < VotesFor(votes, t)}

\* the eliminations a handler announced
Announced(out) ==
    {<<out[i].who, out[i].count>> :
        i \in {k \in DOMAIN out : out[k].type = "gameEvent" /\ out[k].content = "eliminated"}}

\* the resolution of votes eliminated exactly the players of expected and
\* announced each with its count
VoteOutcome(votes, expected, before, after, out) ==
    /\ Announced(out) = {<<t, VotesFor(votes, t)>> : t \in expected}
    /\ \A id \in PlayerIds(before) :
          Alive(after, id) <=> (Alive(before, id) /\ id \notin expected)

\* the step resolves the votes: at the deadline, or with the last vote
VoteResolution(expected(_)) ==
    /\ (gameState.gamePhase = "vote" /\ Deadline) =>
          VoteOutcome(gameState.votes, expected(gameState.votes),
                      gameState, gameState', sent')
    /\ \A actor \in NextVoter(gameState), target \in Targets(gameState) :
          LET cast == setVote(gameState.votes, actor, target)
              w == handleVote(World, actor, target)
          IN (/\ handleVoteResult(gameState, actor, target) = "ok"
              /\ Len(cast) >= Len(AlivePlayers(gameState))
              /\ gameState' = w.g /\ sent' = w.sent) =>
                 VoteOutcome(cast, expected(cast), gameState, gameState', sent')

SeatedTop(votes) == {t \in StrictTop(votes) : Seated(gameState, t)}

Decision(g) ==
    IF AliveIds(g) = {} THEN "noSurvivors"
    ELSE IF AliveWolves(g) = 0 THEN "villagers"
    ELSE IF AliveWolves(g) >= Cardinality(AliveIds(g)) - AliveWolves(g) THEN "werewolves"
    ELSE "continue"

\* C6: whenever a resolution has run the win evaluation, the game ended or
\* went on as the living players decide: nobody alive ends it without a
\* winner, no living werewolf is a villager win, werewolves at least as many
\* as the others is a werewolf win, and otherwise the next phase began.
C6_WinEvaluation ==
    \A i \in DOMAIN sent :
        /\ sent[i].type = "gameEnd" => sent[i].winner = Decision(gameState)
        /\ (sent[i].type = "phaseChange" /\ sent[i].phase \in {"day", "night"}) =>
              Decision(gameState) = "continue"

\* the living holders of a night role
NightRoleHolders(g) ==
    {id \in AliveIds(g) : RoleOf(g, id) \in {WEREWOLF, SEER, WITCH}}

\* C7: while the night lasts, processNightPhase is scheduled only when every
\* living werewolf, the living seer and the living witch have each
\* submitted an action this night.
C7_ScheduledOnlyWhenComplete ==
    (gameState.gamePhase = "night" /\ timeouts.fresh > 0) =>
        \A id \in NightRoleHolders(gameState) : HasAction(gameState, id)

\* the step is a night resolution
NightResolution == NightTimeout \/ (gameState.gamePhase = "night" /\ Deadline)

\* C8: at night resolution a player who is both the kill target and the
\* save target is not killed by the resolution and is alive after it if
\* they were before; the poison target is not alive after it.
C8_SaveAndPoison ==
    [][NightResolution =>
        /\ (/\ gameState.savedTonight # NoUser
            /\ gameState.savedTonight = gameState.killedTonight
            /\ Alive(gameState, gameState.savedTonight)) =>
              /\ Alive(gameState', gameState.savedTonight)
              /\ \A i \in DOMAIN sent' :
                    (sent'[i].type = "gameEvent" /\ sent'[i].content = "killed") =>
                        sent'[i].who # gameState.savedTonight
        /\ gameState.poisonedTonight # NoUser =>
              ~Alive(gameState', gameState.poisonedTonight)]_vars

\* a night resolved with the antidote on the kill target: nobody died and
\* the day began
C8_Witness ==
    /\ gameState.gamePhase = "day"
    /\ \E i \in DOMAIN sent : sent[i].type = "gameEvent" /\ sent[i].content = "saved"
    /\ \A i \in DOMAIN sent :
          sent[i].type = "gameEvent" => sent[i].content \notin {"killed", "poisoned"}
    /\ Len(AlivePlayers(gameState)) = Len(gameState.players)

TimedPhases == {"night", "day", "vote"}

\* C9: with the timer ticking and nobody typing a command, a game in phase
\* night, day or vote leaves that phase, whatever seats were vacated (stated
\* for the days before the last day the model explores).
C9_PhaseIsLeft ==
    \A p \in TimedPhases :
        (gameState.gamePhase = p /\ gameState.dayCount < MaxDay) ~> (gameState.gamePhase # p)

\* C10: at most one phase timer is alive, and exactly one while the phase
\* is night, day or vote.
C10_OneTimer ==
    /\ intervals <= 1
    /\ gameState.gamePhase \in TimedPhases => intervals = 1

\* C11: once endGame has run for a game, no later timer tick, scheduled night
\* resolution or command broadcasts gameEnd for that game again.
C11_GameEndOnce ==
    [][gameState.gamePhase = "ended" =>
        \A i \in DOMAIN sent' : sent'[i].type # "gameEnd"]_vars

\* the phase changes the game is to make; the start of a game counts from
\* waiting and from the end of the game before
PhaseEdges ==
    {<<"waiting", "night">>, <<"ended", "night">>,
     <<"night", "day">>, <<"day", "vote">>, <<"vote", "night">>,
     <<"night", "ended">>, <<"day", "ended">>, <<"vote", "ended">>}

\* C12: the phase changes only along game start-night, night-day, day-vote,
\* vote-night and night/day/vote-ended, and no step enters the phase it is
\* already in (announcing it again with a new deadline).
C12_PhaseEdges ==
    [][/\ gameState'.gamePhase # gameState.gamePhase =>
             <<gameState.gamePhase, gameState'.gamePhase>> \in PhaseEdges
       /\ gameState'.gamePhase = gameState.gamePhase =>
             \A i \in DOMAIN sent' : sent'[i].type # "phaseChange"]_vars

\* C13: a player record whose isAlive is false never has it true again.
C13_IsAliveMonotonic ==
    [][\A id \in PlayerIds(gameState) \cap PlayerIds(gameState') :
          ~PlayerOf(gameState, id).isAlive => ~PlayerOf(gameState', id).isAlive]_vars

\* C19: when a game has ended the phase is waiting again and no player of
\* the finished game is seated.
C19_ResetOnEnd ==
    (\E i \in DOMAIN sent : sent[i].type = "gameEnd") =>
        (gameState.gamePhase = "waiting" /\ gameState.players = <<>>)

\* the seated player who joined earliest (identities join in increasing order)
EarliestSeated(g) == CHOOSE id \in PlayerIds(g) : \A other \in PlayerIds(g) : id <= other

AnyUser == 0 .. NumUsers

\* the actor is alive, holds the role, the phase is night and no action of
\* the actor is recorded this night
MayActAtNight(g, actor, role) ==
    /\ Alive(g, actor)
    /\ RoleOf(g, actor) = role
    /\ g.gamePhase = "night"
    /\ \A i \in DOMAIN g.nightActions : g.nightActions[i].userId # actor

\* C16: a kill, check, save, poison or skip is accepted only from a living
\* holder of the verb's role, in phase night, who has no accepted action
\* this night, and (but for skip) only for a living seated target.
C16_NightSubmission ==
    \A actor \in AnyUser, target \in AnyUser :
        /\ handleKillResult(gameState, actor, target) = "ok" =>
              MayActAtNight(gameState, actor, WEREWOLF) /\ Alive(gameState, target)
        /\ handleCheckResult(gameState, actor, target) = "ok" =>
              MayActAtNight(gameState, actor, SEER) /\ Alive(gameState, target)
        /\ handleSaveResult(gameState, actor, target) = "ok" =>
              MayActAtNight(gameState, actor, WITCH) /\ Alive(gameState, target)
        /\ handlePoisonResult(gameState, actor, target) = "ok" =>
              MayActAtNight(gameState, actor, WITCH) /\ Alive(gameState, target)
        /\ handleSkipResult(gameState, actor) = "ok" =>
              MayActAtNight(gameState, actor, WITCH)

C18_EarlyResolution ==
    [][gameState.gamePhase = "vote" =>
        /\ (gameState'.gamePhase = "vote" /\ Len(gameState'.votes) > Len(gameState.votes)) =>
              \E id \in AliveIds(gameState') :
                  \A i \in DOMAIN gameState'.votes : gameState'.votes[i].voterId # id
        /\ gameState'.gamePhase = "night" => (intervals' = 1 /\ gameState'.votes = <<>>)
        /\ gameState'.gamePhase = "ended" => intervals' = 0]_vars

\* all five living players voted for one player, who was eliminated with
\* five votes as the fifth vote was recorded
C18_Witness ==
    /\ Len(gameState.players) = 5
    /\ \E i \in DOMAIN sent :
          /\ sent[i].type = "gameEvent" /\ sent[i].content = "eliminated"
          /\ sent[i].count = 5

GameBegins == ~gameState.isPlaying /\ gameState'.isPlaying

VoteToNight ==
    /\ ~GameBegins
    /\ gameState.gamePhase = "vote" /\ gameState'.gamePhase = "night"

C23_NoOneDied ==
    [][NightResolution =>
        ((\E i \in DOMAIN sent' :
              sent'[i].type = "gameEvent" /\ sent'[i].content = "peaceful")
         <=> AliveIds(gameState') = AliveIds(gameState))]_vars

\* C24: while the phase is night, day or vote at least one werewolf is
\* alive and the living werewolves are fewer than the other living players.
C24_Balance ==
    gameState.gamePhase \in TimedPhases =>
        /\ AliveWolves(gameState) >= 1
        /\ AliveWolves(gameState) < Len(AlivePlayers(gameState)) - AliveWolves(gameState)

\* the step ends a game: endGame broadcasts gameEnd
GameEnds == \E i \in DOMAIN sent' : sent'[i].type = "gameEnd"

\* the fields of gameState that belong to one night
NightFields(g) ==
    <<g.nightActions, g.killedTonight, g.savedTonight, g.poisonedTonight, g.checkedTonight>>

KillsTonight(g) == SelectSeq(g.nightActions, LAMBDA a : a.action = "kill")

\* the target of the kill accepted last, if any
LastKillTarget(g) ==
    IF KillsTonight(g) = <<>> THEN NoUser
    ELSE KillsTonight(g)[Len(KillsTonight(g))].targetId

\* C26: during a night the standing kill target is the target of the
\* werewolf kill accepted last (none if no kill was accepted), whatever the
\* seer and the witch submit; a resolution of that night kills that target
\* unless the save cancels the kill.
C26_LastKillWins ==
    [][gameState.gamePhase = "night" =>
        /\ gameState.killedTonight = LastKillTarget(gameState)
        /\ (/\ NightResolution
            /\ KillsTonight(gameState) # <<>>
            /\ Seated(gameState, LastKillTarget(gameState))
            /\ gameState.savedTonight # LastKillTarget(gameState)) =>
              /\ ~Alive(gameState', LastKillTarget(gameState))
              /\ \A i \in DOMAIN sent' :
                    (sent'[i].type = "gameEvent" /\ sent'[i].content = "killed") =>
                        sent'[i].who = LastKillTarget(gameState)]_vars

\* C27: a save is accepted only when a werewolf kill has been accepted this
\* night, a standing kill target exists and the named target is that
\* target; the step that rejects a save for want of such a target leaves
\* the game state as it was, the witch's hasActed included.
C27_SaveOnlyKillTarget ==
    [][/\ \A actor \in AnyUser, target \in AnyUser :
            handleSaveResult(gameState, actor, target) = "ok" =>
                /\ KillsTonight(gameState) # <<>>
                /\ gameState.killedTonight # NoUser
                /\ target = gameState.killedTonight
       /\ sent' = <<[type |-> "reply", content |-> "NoOneToSave"]>> =>
            gameState' = gameState]_vars

\* in a night in which a werewolf has chosen a target, the witch's save of
\* another player has just been rejected and the witch may still act
C27_Witness ==
    /\ gameState.gamePhase = "night"
    /\ gameState.killedTonight # NoUser
    /\ sent = <<[type |-> "reply", content |-> "NoOneToSave"]>>
    /\ \E i \in DOMAIN gameState.players :
          /\ gameState.players[i].role = WITCH
          /\ gameState.players[i].isAlive /\ ~gameState.players[i].hasActed

\* the witch's save is recorded among the night actions
SaveAccepted(g) == \E i \in DOMAIN g.nightActions : g.nightActions[i].action = "save"

\* C28: when a night in which a save was accepted is resolved, the save
\* target equals the standing kill target and the resolution announces no
\* player killed by the werewolves.
C28_SaveStands ==
    [][(NightResolution /\ gameState.gamePhase = "night" /\ SaveAccepted(gameState)) =>
        /\ gameState.savedTonight = gameState.killedTonight
        /\ \A i \in DOMAIN sent' :
              ~(sent'[i].type = "gameEvent" /\ sent'[i].content = "killed")]_vars

\* the step records a check as the latest night action
CheckRecorded ==
    /\ Len(gameState'.nightActions) = Len(gameState.nightActions) + 1
    /\ gameState'.nightActions[Len(gameState'.nightActions)].action = "check"

\* the seer of the check that the step records
Checker == gameState'.nightActions[Len(gameState'.nightActions)].userId

\* C29: the step that accepts a seer's check reports the target as a
\* werewolf exactly when its role is werewolf and changes nothing of the
\* game state but the seer's hasActed, the night-action record and the
\* checked target: every isAlive and the kill, save and poison targets are
\* as they were.
C29_CheckIsReadOnly ==
    [][CheckRecorded =>
        /\ seerResult(gameState, gameState'.checkedTonight).isWerewolf
              <=> RoleOf(gameState, gameState'.checkedTonight) = WEREWOLF
        /\ gameState' = [gameState EXCEPT
              !.nightActions = gameState'.nightActions,
              !.checkedTonight = gameState'.checkedTonight,
              !.players = [i \in DOMAIN gameState.players |->
                  IF gameState.players[i].userId = Checker
                  THEN [gameState.players[i] EXCEPT !.hasActed = TRUE]
                  ELSE gameState.players[i]]]]_vars

\* the players the recorded targets condemn: the poison target, and the kill
\* target unless the save names it
Victims(g) ==
    ({g.poisonedTonight} \cup
     (IF g.savedTonight # NoUser /\ g.savedTonight = g.killedTonight
      THEN {} ELSE {g.killedTonight})) \ {NoUser}

VoteDeadline == gameState.gamePhase = "vote" /\ Deadline

\* C31: the step in which the vote deadline elapses records no vote for the
\* players who did not vote and resolves the votes that were cast; where
\* the flags survive the step (the game ended) every living player has
\* hasVoted = true; if nobody voted, nobody is eliminated and the next
\* night begins.
C31_VoteDeadline ==
    [][VoteDeadline =>
        /\ VoteOutcome(gameState.votes, SeatedTop(gameState.votes),
                       gameState, gameState', sent')
        /\ gameState'.votes \in {<<>>, gameState.votes}
        /\ gameState'.gamePhase = "ended" =>
              \A i \in DOMAIN gameState'.players :
                  gameState'.players[i].isAlive => gameState'.players[i].hasVoted
        /\ gameState.votes = <<>> =>
              /\ AliveIds(gameState') = AliveIds(gameState)
              /\ gameState'.gamePhase = "night"
              /\ gameState'.dayCount = gameState.dayCount + 1]_vars

\* the step enters the phase: it begins a game (night) or broadcasts the
\* change to the phase
Enters(phase) ==
    \/ phase = "night" /\ GameBegins
    \/ \E i \in DOMAIN sent' : sent'[i].type = "phaseChange" /\ sent'[i].phase = phase

NightStateEmpty(g) ==
    /\ g.nightActions = <<>>
    /\ g.killedTonight = NoUser /\ g.savedTonight = NoUser
    /\ g.poisonedTonight = NoUser /\ g.checkedTonight = NoUser

FreshDeadline == gameState'.phaseTimer /\ intervals' >= 1

\* C34: a night resolution whose kill or poison target has vacated the
\* seat, and a vote resolution at the deadline whose top target has vacated
\* the seat, skip that player and complete the phase transition: to day,
\* respectively night, with a running timer, or to ended.
C34_VacatedTarget ==
    [][/\ (/\ NightResolution /\ gameState.gamePhase = "night"
           /\ \E t \in {gameState.killedTonight, gameState.poisonedTonight} \ {NoUser} :
                 ~Seated(gameState, t)) =>
             /\ AliveIds(gameState') = AliveIds(gameState) \ Victims(gameState)
             /\ gameState'.gamePhase \in {"day", "ended"}
             /\ gameState'.gamePhase = "day" => FreshDeadline
       /\ (/\ VoteDeadline
           /\ \E t \in StrictTop(gameState.votes) : ~Seated(gameState, t)) =>
             /\ AliveIds(gameState') = AliveIds(gameState)
             /\ gameState'.gamePhase \in {"night", "ended"}
             /\ gameState'.gamePhase = "night" => FreshDeadline]_vars



----------------------------------------------------------------------------
(* Error recovery, server.js:1292-1308, 1443-1459 and 1630-1633.  A broadcast
   of broadcastMessage (lines 119-126) throws when client.send throws; the
   broadcasts of a resolution are the places where its try block can fail.
   The place is 0 for the phaseTimer broadcast of the tick (line 1563), 1
   for the broadcast of the result (lines 1227-1242, 1351 and 1366) and 2 for
   the phaseChange broadcast that follows startPhaseTimer (lines 1269 and
   1401, line 1590 in the day branch of the tick).  The broadcast of the
   catch block is delivered; when it throws too, the inner catch swallows
   the error and only that message is lost. *)

\* the catch block of lines 1292-1308
recoverNight(w) ==
    Send(startPhaseTimer([w EXCEPT !.g.gamePhase = "day"]),
         [type |-> "gameEvent", content |-> "nightError"])

\* a catch block that enters night and leaves the timer as it is
recoverVoteTimerLeft(w) ==
    Send([w EXCEPT !.g.gamePhase = "night"], [type |-> "gameEvent", content |-> "voteError"])

\* the catch block of lines 1443-1459
recoverVote(w) ==
    Send(startPhaseTimer([w EXCEPT !.g.gamePhase = "night"]),
         [type |-> "gameEvent", content |-> "voteError"])

\* the broadcasts of processNightPhase that can throw: the one of the result
\* always runs, the one of the phase change when the game goes on
NightFaults(w) ==
    {1} \cup (IF Winner(nightDeaths(w).g) = "continue" THEN {2} ELSE {})

\* processNightPhase when the broadcast at the given place throws: what was
\* assigned before stays, nothing of the failing broadcast is delivered
processNightPhaseThrows(w, at) ==
    LET w3 == [nightDeaths(w) EXCEPT !.sent = w.sent]
    IN IF at = 1 THEN recoverNight(w3)
       ELSE recoverNight(enterDay(w3))

\* the broadcasts of processVotePhase that can throw: lines 1351 and 1366
\* run unless the player with the most votes has no seat, line 1401 when the
\* game goes on; the return of line 1319 comes before all of them
VoteFaults(w) ==
    IF Len(w.g.players) = 0 THEN {}
    ELSE (IF Len(voteElimination(w).sent) > Len(w.sent) THEN {1} ELSE {})
         \cup (IF Winner(voteElimination(w).g) = "continue" THEN {2} ELSE {})

processVotePhaseThrows(w, at) ==
    LET w1 == [voteElimination(w) EXCEPT !.sent = w.sent]
    IN IF at = 1 THEN recoverVote(w1)
       ELSE recoverVote(enterNight(w1))

\* the broadcasts of a tick at the deadline that can throw
TickFaults(w) ==
    LET c == clearPhaseTimer(w)
    IN {0} \cup
       (IF c.g.gamePhase = "night" THEN NightFaults([c EXCEPT !.g = markIdleActed(@)])
        ELSE IF c.g.gamePhase = "day" THEN {2}
        ELSE IF c.g.gamePhase = "vote" THEN VoteFaults([c EXCEPT !.g = markIdleVoted(@)])
        ELSE {})

\* the interval callback of lines 1557-1633 when a broadcast throws; the
\* catch of lines 1630-1633 only logs
onDeadlineThrows(w, at) ==
    LET c == clearPhaseTimer(w)
    IN IF at = 0 THEN w
       ELSE IF c.g.gamePhase = "night"
         THEN processNightPhaseThrows([c EXCEPT !.g = markIdleActed(@)], at)
       ELSE IF c.g.gamePhase = "day"
         THEN startPhaseTimer([c EXCEPT !.g.gamePhase = "vote"])
       ELSE processVotePhaseThrows([c EXCEPT !.g = markIdleVoted(@)], at)

\* handleVote when the early resolution of line 988 fails
handleVoteThrows(w, actor, target, at) ==
    processVotePhaseThrows(recordVote(w, actor, target), at)

DeadlineThrowsAt(at) ==
    /\ intervals > 0
    /\ timeouts.stale = 0
    /\ at \in TickFaults(World)
    /\ LET w == onDeadlineThrows(World, at)
       IN /\ w.g.dayCount <= MaxDay
          /\ Commit(w)
    /\ UNCHANGED closed

DeadlineThrows == \E at \in 0 .. 2 : DeadlineThrowsAt(at)

VoteCmdThrows ==
    \E actor \in NextVoter(gameState), target \in Targets(gameState) :
        /\ handleVoteResult(gameState, actor, target) = "ok"
        /\ allVoted(recordVote(World, actor, target).g)
        /\ \E at \in VoteFaults(recordVote(World, actor, target)) :
               LET w == handleVoteThrows(World, actor, target, at)
               IN /\ w.g.dayCount <= MaxDay
                  /\ Commit(w)
        /\ UNCHANGED closed

NextFault ==
    \/ JoinFive
    \/ StartGame
    \/ KillCmd
    \/ VoteCmd
    \/ Deadline
    \/ DeadlineThrows
    \/ VoteCmdThrows

SpecFault == Init /\ [][NextFault]_vars


----------------------------------------------------------------------------
\* a step in which a broadcast throws delivers nothing but the message of
\* the catch block
Undelivered ==
    sent' \in {<<>>, <<[type |-> "gameEvent", content |-> "nightError"]>>,
                     <<[type |-> "gameEvent", content |-> "voteError"]>>}

NightResolutionThrows ==
    /\ Undelivered
    /\ gameState.gamePhase = "night"
    /\ \E at \in 1 .. 2 : DeadlineThrowsAt(at)

VoteResolutionThrows ==
    /\ Undelivered
    /\ \/ VoteCmdThrows
       \/ gameState.gamePhase = "vote" /\ \E at \in 1 .. 2 : DeadlineThrowsAt(at)

TickThrows == Undelivered /\ DeadlineThrows

\* C35: a night resolution in which a broadcast throws lands in phase day
\* with a fresh active deadline, a vote resolution in which a broadcast
\* throws lands in phase night with a fresh active deadline, and a tick of
\* the timer in which a broadcast throws never leaves the game in night, day
\* or vote without an active timer.
C35_ErrorRecovery ==
    [][/\ NightResolutionThrows => gameState'.gamePhase = "day" /\ FreshDeadline
       /\ VoteResolutionThrows => gameState'.gamePhase = "night" /\ FreshDeadline
       /\ TickThrows => (gameState'.gamePhase \in TimedPhases => FreshDeadline)]_vars

\* C35 witness: the vote resolution has failed and the recovery message was
\* delivered: night runs under a timer
C35_Witness ==
    /\ \E i \in DOMAIN sent : sent[i].type = "gameEvent" /\ sent[i].content = "voteError"
    /\ gameState.gamePhase = "night"
    /\ gameState.phaseTimer
    /\ intervals >= 1


----------------------------------------------------------------------------
\* the shots broadcast by the step
ShotsSent == {i \in DOMAIN sent' : sent'[i].type = "system" /\ sent'[i].content = "shot"}

\* C36: a shoot of an actor who is alive or is not the hunter is rejected, and
\* an accepted one comes from a seated dead hunter of a running game and names
\* a living player; the step of an accepted shoot, in whatever phase, leaves
\* the named player dead and evaluates the win conditions: when one holds
\* after the death the game is ended in the same step, and otherwise the
\* phase and the game go on as they were.
C36_Shoot ==
    [][/\ \A actor \in AnyUser, target \in AnyUser :
             /\ (Seated(gameState, actor) /\
                   (PlayerOf(gameState, actor).isAlive \/ PlayerOf(gameState, actor).role # HUNTER))
                    => handleShootResult(gameState, actor, target) # "ok"
             /\ handleShootResult(gameState, actor, target) = "ok"
                    => /\ gameState.isPlaying
                       /\ Seated(gameState, actor) /\ ~Alive(gameState, actor)
                       /\ RoleOf(gameState, actor) = HUNTER
                       /\ Alive(gameState, target)
       /\ \A i \in ShotsSent :
             /\ handleShootResult(gameState, sent'[i].by, sent'[i].who) = "ok"
             /\ ~Alive(gameState', sent'[i].who)
             /\ AliveIds(gameState') = AliveIds(gameState) \ {sent'[i].who}
             /\ IF Winner(gameState') # "continue"
                THEN /\ GameEnds
                     /\ ~gameState'.isPlaying
                     /\ gameState'.gamePhase = "ended"
                ELSE /\ ~GameEnds
                     /\ gameState'.isPlaying
                     /\ gameState'.gamePhase = gameState.gamePhase]_vars

\* C36 witness: a shot has just ended the game
C36_Witness ==
    /\ \E i \in DOMAIN sent : sent[i].type = "system" /\ sent[i].content = "shot"
    /\ \E i \in DOMAIN sent : sent[i].type = "gameEnd"
    /\ gameState.gamePhase = "ended"


----------------------------------------------------------------------------
\* the players announced as killed by the werewolves in the step
KilledSent ==
    {sent'[i].who : i \in {k \in DOMAIN sent' :
        sent'[k].type = "gameEvent" /\ sent'[k].content = "killed"}}

\* C37: the kill target, when set, never names a werewolf, and no werewolf
\* dies of the werewolf kill at a night resolution.
C37_KillTargetNoWolf ==
    [][/\ gameState'.killedTonight # NoUser
            => RoleOf(gameState', gameState'.killedTonight) # WEREWOLF
       /\ \A id \in KilledSent :
             /\ RoleOf(gameState, id) # WEREWOLF
             /\ RoleOf(gameState', id) # WEREWOLF]_vars

\* C37 witness: the night resolution has just killed the target of the
\* werewolves, a seated player who is no werewolf
C37_Witness ==
    \E i \in DOMAIN sent :
        /\ sent[i].type = "gameEvent" /\ sent[i].content = "killed"
        /\ Seated(gameState, sent[i].who)
        /\ ~Alive(gameState, sent[i].who)
        /\ RoleOf(gameState, sent[i].who) # WEREWOLF


----------------------------------------------------------------------------
\* the step is a vote of the actor that is resolved as it is recorded
\* (handleVote, line 988)
EarlyVoteResolution(actor) ==
    /\ gameState.gamePhase = "vote"
    /\ gameState'.gamePhase # "vote"
    /\ \E target \in Targets(gameState) :
          /\ handleVoteResult(gameState, actor, target) = "ok"
          /\ allVoted(recordVote(World, actor, target).g)
          /\ Commit(handleVote(World, actor, target))

\* the players with a vote in the votes Map
Voters(g) == {g.votes[i].voterId : i \in DOMAIN g.votes}

\* C38: the vote resolution that handleVote runs before the deadline runs
\* only when every living seated player has voted in the current vote phase:
\* every living player other than the one voting has a recorded vote and has
\* hasVoted set.
C38_EarlyOnlyWhenAllVoted ==
    [][\A actor \in NextVoter(gameState) :
          EarlyVoteResolution(actor) =>
              \A id \in AliveIds(gameState) \ {actor} :
                  id \in Voters(gameState) /\ PlayerOf(gameState, id).hasVoted]_vars


----------------------------------------------------------------------------
\* the votes of players who are alive and seated for targets who are alive
\* and seated
ValidVotes(g, votes) ==
    SelectSeq(votes, LAMBDA v : Alive(g, v.voterId) /\ Alive(g, v.targetId))

\* C39: a vote resolution counts the votes of the current vote phase whose
\* voter and target are alive and seated when it runs, and no others: the
\* player it eliminates, and the count it announces, are those of the tally
\* of these votes alone, so a vote of a player who died or left after voting
\* has no influence on the elimination.
C39_CountedVotes ==
    [][/\ VoteDeadline =>
             VoteOutcome(ValidVotes(gameState, gameState.votes),
                         StrictTop(ValidVotes(gameState, gameState.votes)),
                         gameState, gameState', sent')
       /\ \A actor \in NextVoter(gameState), target \in Targets(gameState) :
             LET cast == setVote(gameState.votes, actor, target)
                 w == handleVote(World, actor, target)
             IN (/\ gameState.gamePhase = "vote"
                 /\ handleVoteResult(gameState, actor, target) = "ok"
                 /\ allVoted(recordVote(World, actor, target).g)
                 /\ gameState' = w.g /\ sent' = w.sent) =>
                    VoteOutcome(ValidVotes(gameState, cast),
                                StrictTop(ValidVotes(gameState, cast)),
                                gameState, gameState', sent')]_vars

============================================================================
